---------------------------- MODULE Spec2Model ----------------------------
(***************************************************************************)
(* Model of the poultry-env monitoring program: the two stateful trackers  *)
(* of hardware_manager.py (MotionTracker, SoundDisturbanceDetector) and    *)
(* the aggregate status rule of main.py (PoultryApp.update_data).          *)
(*                                                                         *)
(* Time is the value returned by time(), counted in whole seconds.  Every  *)
(* call of time() is a read of the variable clock; the clock moves between *)
(* handler calls (Advance) and between the two reads inside one            *)
(* SoundDisturbanceDetector.update call.                                   *)
(***************************************************************************)
EXTENDS Integers, FiniteSets, Sequences, TLC

VARIABLES
    clock,            \* the wall clock read by time()
    advances,         \* how many times the clock has moved (bounded exploration)
    sound_sensor,     \* module-level handle: "InputDevice" or "None"
    sound_detector,   \* the SoundDisturbanceDetector object's fields
    sound_status,     \* the dict returned by the last SoundDisturbanceDetector.get_status
    sound_op,         \* history: the last operation on the detector
    sound_read_time,  \* history: the time() value read by the last get_status / update
    episode_alerts,   \* history: get_status calls of the current noise episode that alerted
    total_alerts,     \* history: get_status calls since construction that alerted
    sustained_seen,   \* history: a get_status of this episode saw a duration over the threshold
    latched_at_start, \* history: alert_triggered_for_event when the current noise episode began
    latched_at_quiet, \* history: alert_triggered_for_event when the last quiet episode began
    quiet_observed,   \* history: longest quiet duration update computed in the last quiet episode
    sound_before,     \* history: the detector's fields before its last operation
    sound_called_at,  \* history: the clock when the detector's last operation was entered
    sound_op_before,  \* history: the operation on the detector before the last one
    sound_status_before, \* history: sound_status before the detector's last operation
    quiet_run_since_alert, \* history: since the last alert, update saw quiet outlast quiet_reset_duration
    shadow_sound,     \* reference: a detector with an available sensor that reads false at every update
    shadow_sound_status, \* reference: what get_status returned for shadow_sound
    pir_sensor,       \* module-level handle: "MotionSensor" or "None"
    motion_tracker,   \* the MotionTracker object's fields
    motion_status,    \* the dict returned by the last MotionTracker.get_status
    motion_op,        \* history: the last operation on the tracker
    motion_signal,    \* history: pir_sensor.is_active as read by the last update
    motion_read_time, \* history: the time() value read by the last tracker call
    motion_before,    \* history: the tracker's fields before its last operation
    signal_true_at,   \* history: the time of the last update that read a true signal, or None
    started_at,       \* history: the time() value read by MotionTracker.__init__
    shadow_motion,    \* reference: a tracker with an available sensor that reads false at every update
    shadow_motion_status, \* reference: what get_status returned for shadow_motion
    current_temp,     \* update_data: env_data['temperature'], tenths of a degree, or NoReading
    co2_data,         \* update_data: get_co2_data() result in ppm, or NoReading
    inactivity_alert, \* update_data: motion_data['inactivity_alert']
    system_status,    \* update_data: the text shown in the status panel
    dht_sensor,       \* hardware_manager's module-level handle: "DHT22" or "None"
    logged_sensor,    \* tests/dht.py's module-level handle: "DHT22" or "released" after exit()
    env_data,         \* the dict last returned by a get_environmental_data
    co2_value,        \* the value last returned by get_co2_data
    csv_status,       \* the status column of the last row _log_to_csv appended, "" if none
    adapter_op,       \* history: the last adapter called
    adapter_raised,   \* the exception that left the last adapter call, "none" if it returned
    driver_reads      \* history: what the driver gave the last adapter call

soundVars == <<sound_sensor, sound_detector, sound_status, sound_op, sound_read_time,
               episode_alerts, total_alerts, sustained_seen, latched_at_start,
               latched_at_quiet, quiet_observed, sound_before, sound_called_at,
               sound_op_before, sound_status_before, quiet_run_since_alert,
               shadow_sound, shadow_sound_status>>
motionVars == <<pir_sensor, motion_tracker, motion_status, motion_op, motion_signal,
                motion_read_time, motion_before, signal_true_at, started_at,
                shadow_motion, shadow_motion_status>>
statusVars == <<current_temp, co2_data, inactivity_alert, system_status>>
adapterVars == <<dht_sensor, logged_sensor, env_data, co2_value, csv_status,
                 adapter_op, adapter_raised, driver_reads>>
vars == <<clock, advances, soundVars, motionVars, statusVars, adapterVars>>

(***************************************************************************)
(* Bounds of the exploration.                                              *)
(***************************************************************************)
MaxTime == 9
MaxStep == 2
MaxDrift == 1
MaxThreshold == 2
AlertCountCap == 2
MaxAdvances == 3

\* Python's None for an optional timestamp (time() itself is never negative).
None == -1

\* Python's None for a sensor reading; a present reading v is <<v>>.
NoReading == << >>
Reading(v) == <<v>>

Min(a, b) == IF a < b THEN a ELSE b

(***************************************************************************)
(* SoundDisturbanceDetector                                                *)
(***************************************************************************)

\* __init__(sustained_noise_sec, quiet_reset_sec), t the value of time().
SoundDisturbanceDetector(sustained_noise_sec, quiet_reset_sec, t) ==
    [ sustained_noise_duration  |-> sustained_noise_sec,
      quiet_reset_duration      |-> quiet_reset_sec,
      noise_start_time          |-> None,
      quiet_start_time          |-> t,
      alert_triggered_for_event |-> FALSE,
      sound_is_active           |-> FALSE ]

QuietLongEnough_NotStrict(d, t) ==
    t - d.quiet_start_time >= d.quiet_reset_duration

\* update, line 156: time() - self.quiet_start_time > self.quiet_reset_duration
QuietLongEnough(d, t) ==
    t - d.quiet_start_time > d.quiet_reset_duration

NoiseDetected_KeepsQuietTimer(d, t) ==
    [d EXCEPT !.noise_start_time = IF @ = None THEN t ELSE @]

NoiseDetected_Restamps(d, t) ==
    [d EXCEPT !.quiet_start_time = None, !.noise_start_time = t]

\* update, lines 143-147: the branch taken when sound_is_active is true.
NoiseDetected(d, t) ==
    [d EXCEPT !.quiet_start_time = None,
              !.noise_start_time = IF @ = None THEN t ELSE @]

ItIsQuiet_NeverRearms(d, t1, t2) ==
    [d EXCEPT !.noise_start_time = None,
              !.quiet_start_time = IF @ = None THEN t1 ELSE @]

\* update, lines 149-157: the branch taken when sound_is_active is false;
\* t1 is the time() of line 153 and t2 the time() of line 156.
ItIsQuiet(d, t1, t2) ==
    LET q == [d EXCEPT !.noise_start_time = None,
                       !.quiet_start_time = IF @ = None THEN t1 ELSE @]
    IN  IF QuietLongEnough(q, t2)
        THEN [q EXCEPT !.alert_triggered_for_event = FALSE]
        ELSE q

\* update: sensor is the module-level handle, is_active the signal it reads.
SoundUpdate(d, sensor, is_active, t1, t2) ==
    IF sensor = "None"
    THEN [d EXCEPT !.sound_is_active = FALSE]
    ELSE LET r == [d EXCEPT !.sound_is_active = is_active]
         IN  IF is_active THEN NoiseDetected(r, t1) ELSE ItIsQuiet(r, t1, t2)

AlertNow_NoLatch(d, t) ==
    /\ d.noise_start_time # None
    /\ t - d.noise_start_time > d.sustained_noise_duration

\* get_status, lines 161-167: the value of alert_now, t the time() of line 165.
AlertNow(d, t) ==
    /\ d.noise_start_time # None
    /\ t - d.noise_start_time > d.sustained_noise_duration
    /\ ~d.alert_triggered_for_event

SoundAfterStatus_NoLatch(d, t) == d

\* get_status, line 168: the detector after the call.
SoundAfterStatus(d, t) ==
    IF AlertNow(d, t) THEN [d EXCEPT !.alert_triggered_for_event = TRUE] ELSE d

\* get_status, lines 170-173: the returned dict.
SoundStatus(d, t) ==
    [ sound_now |-> d.sound_is_active, acoustic_alert |-> AlertNow(d, t) ]

(***************************************************************************)
(* MotionTracker                                                           *)
(***************************************************************************)

\* The thresholds the program constructs a MotionTracker with.
DefaultInactivityThreshold == 7200
TestInactivityThreshold == 30

MotionTracker_StartsAtEpoch(inactivity_threshold_sec, t) ==
    [ inactivity_threshold |-> inactivity_threshold_sec,
      last_motion_time     |-> 0,
      motion_now           |-> FALSE ]

\* __init__(inactivity_threshold_sec), t the value of time().
MotionTracker(inactivity_threshold_sec, t) ==
    [ inactivity_threshold |-> inactivity_threshold_sec,
      last_motion_time     |-> t,
      motion_now           |-> FALSE ]

MotionUpdate_StampsAlways(m, sensor, is_active, t) ==
    IF sensor = "None"
    THEN [m EXCEPT !.motion_now = FALSE]
    ELSE [m EXCEPT !.motion_now = is_active, !.last_motion_time = t]

MotionUpdate_StampsWhenAbsent(m, sensor, is_active, t) ==
    IF sensor = "None"
    THEN [m EXCEPT !.motion_now = FALSE, !.last_motion_time = t]
    ELSE IF is_active
         THEN [m EXCEPT !.motion_now = TRUE, !.last_motion_time = t]
         ELSE [m EXCEPT !.motion_now = FALSE]

\* update: sensor is the module-level handle, is_active the signal it reads,
\* t the time() of line 96.
MotionUpdate(m, sensor, is_active, t) ==
    IF sensor = "None"
    THEN [m EXCEPT !.motion_now = FALSE]
    ELSE IF is_active
         THEN [m EXCEPT !.motion_now = TRUE, !.last_motion_time = t]
         ELSE [m EXCEPT !.motion_now = FALSE]

LastSeenStr_MinutesBandClosed(time_since_last_motion) ==
    IF time_since_last_motion <= 60
    THEN "Just now"
    ELSE IF time_since_last_motion < 3600
         THEN ToString(time_since_last_motion \div 60) \o " mins ago"
         ELSE ToString(time_since_last_motion \div 3600) \o " hours ago"

\* get_status, lines 104-109: int(x / 60) truncates, which for the
\* non-negative x of those branches is the integer quotient.
LastSeenStr(time_since_last_motion) ==
    IF time_since_last_motion < 60
    THEN "Just now"
    ELSE IF time_since_last_motion < 3600
         THEN ToString(time_since_last_motion \div 60) \o " mins ago"
         ELSE ToString(time_since_last_motion \div 3600) \o " hours ago"

InactivityAlert_NotStrict(m, time_since_last_motion) ==
    time_since_last_motion >= m.inactivity_threshold

\* get_status, line 111.
InactivityAlert(m, time_since_last_motion) ==
    time_since_last_motion > m.inactivity_threshold

MotionAfterStatus_Stamps(m, t) == [m EXCEPT !.last_motion_time = t]

\* get_status, lines 100-118: the tracker after the call; no line of
\* get_status assigns to a field of self.
MotionAfterStatus(m, t) == m

\* get_status, lines 102-118: the returned dict, t the time() of line 102.
MotionStatus(m, t) ==
    LET time_since_last_motion == t - m.last_motion_time
    IN  [ motion_now          |-> m.motion_now,
          last_seen_str       |-> LastSeenStr(time_since_last_motion),
          inactivity_alert    |-> InactivityAlert(m, time_since_last_motion),
          hyperactivity_alert |-> FALSE ]

(***************************************************************************)
(* PoultryApp.update_data: the aggregate status                            *)
(***************************************************************************)

SystemStatus_AbsentTempIsCritical(temp, co2, inactive) ==
    IF temp = NoReading \/ temp[1] > 350
    THEN "CRITICAL"
    ELSE IF inactive
         THEN "CRITICAL"
         ELSE IF co2 # NoReading /\ co2[1] > 2000
              THEN "WARNING"
              ELSE "NORMAL"

SystemStatus_WarningFirst(temp, co2, inactive) ==
    IF co2 # NoReading /\ co2[1] > 2000
    THEN "WARNING"
    ELSE IF temp # NoReading /\ temp[1] > 350
         THEN "CRITICAL"
         ELSE IF inactive
              THEN "CRITICAL"
              ELSE "NORMAL"

\* update_data, lines 92-100; temperatures are in tenths of a degree, so
\* 35.0 is 350.
SystemStatus(temp, co2, inactive) ==
    IF temp # NoReading /\ temp[1] > 350
    THEN "CRITICAL"
    ELSE IF inactive
         THEN "CRITICAL"
         ELSE IF co2 # NoReading /\ co2[1] > 2000
              THEN "WARNING"
              ELSE "NORMAL"

(***************************************************************************)
(* Sensor read adapters                                                    *)
(*                                                                         *)
(* A read of the driver is [kind, value]: kind "value" with the number     *)
(* read, "None", or the exception it raised: "RuntimeError" (the driver's  *)
(* read faults, which carry a message: the handlers print error.args[0])   *)
(* or "Exception" (anything else).                                         *)
(***************************************************************************)

Raises(read) == read.kind \in {"RuntimeError", "Exception"}

\* The exception that leaves the try block when temperature is read first
\* and humidity second: "none" if both reads return.
FirstRaise(temperature_read, humidity_read) ==
    IF Raises(temperature_read) THEN temperature_read.kind
    ELSE IF Raises(humidity_read) THEN humidity_read.kind
    ELSE "none"

ReadValue(read) == IF read.kind = "value" THEN Reading(read.value) ELSE NoReading

BothAbsent == [temperature |-> NoReading, humidity |-> NoReading]

GetEnvironmentalData_Partial(handle, temperature_read, humidity_read) ==
    IF handle = "None" \/ FirstRaise(temperature_read, humidity_read) # "none"
    THEN [raised |-> "none", data |-> BothAbsent]
    ELSE [raised |-> "none",
          data   |-> [temperature |-> ReadValue(temperature_read),
                      humidity    |-> ReadValue(humidity_read)]]

GetEnvironmentalData_Reraises(handle, temperature_read, humidity_read) ==
    IF handle = "None"
    THEN [raised |-> "none", data |-> BothAbsent]
    ELSE IF FirstRaise(temperature_read, humidity_read) = "Exception"
         THEN [raised |-> "Exception", data |-> BothAbsent]
         ELSE IF temperature_read.kind = "value" /\ humidity_read.kind = "value"
              THEN [raised |-> "none",
                    data   |-> [temperature |-> ReadValue(temperature_read),
                                humidity    |-> ReadValue(humidity_read)]]
              ELSE [raised |-> "none", data |-> BothAbsent]

\* hardware_manager.get_environmental_data, lines 43-58: what it returns
\* (data) and the exception that leaves it (raised).
GetEnvironmentalData(handle, temperature_read, humidity_read) ==
    IF handle = "None"
    THEN [raised |-> "none", data |-> BothAbsent]
    ELSE IF FirstRaise(temperature_read, humidity_read) = "none"
         THEN IF temperature_read.kind = "value" /\ humidity_read.kind = "value"
              THEN [raised |-> "none",
                    data   |-> [temperature |-> ReadValue(temperature_read),
                                humidity    |-> ReadValue(humidity_read)]]
              ELSE [raised |-> "none", data |-> BothAbsent]
         ELSE [raised |-> "none", data |-> BothAbsent]

\* hardware_manager.get_co2_data, lines 68-76: read is what mh_z19.read()
\* gave: kind "dict" ({'co2': value}), "dictNoCo2" (a dict without the
\* key), "emptyDict", "None" or "Exception".
GetCo2Data(read) ==
    IF read.kind = "dict" THEN Reading(read.value) ELSE NoReading

\* tests/dht.py get_environmental_data, lines 34-59: the logging variant.
\* csv is the status _log_to_csv writes, released whether exit() ran.
LoggedGetEnvironmentalData(temperature_read, humidity_read) ==
    LET exc == FirstRaise(temperature_read, humidity_read)
    IN  IF exc = "none"
        THEN IF temperature_read.kind = "None" \/ humidity_read.kind = "None"
             THEN [raised |-> "none", data |-> BothAbsent,
                   csv |-> "error", released |-> FALSE]
             ELSE [raised |-> "none",
                   data   |-> [temperature |-> ReadValue(temperature_read),
                               humidity    |-> ReadValue(humidity_read)],
                   csv |-> "ok", released |-> FALSE]
        ELSE IF exc = "RuntimeError"
             THEN [raised |-> "none", data |-> BothAbsent,
                   csv |-> "runtime_error", released |-> FALSE]
             ELSE [raised |-> "Exception", data |-> BothAbsent,
                   csv |-> "exception:Exception", released |-> TRUE]

(***************************************************************************)
(* The state machines.  Each specification below drives one component and  *)
(* leaves the variables of the others at their initial values.             *)
(***************************************************************************)

InitSoundVars ==
    /\ sound_sensor \in {"InputDevice", "None"}
    /\ \E s \in 0..MaxThreshold, q \in 0..MaxThreshold :
           sound_detector = SoundDisturbanceDetector(s, q, clock)
    /\ sound_status = [sound_now |-> FALSE, acoustic_alert |-> FALSE]
    /\ sound_op = "init"
    /\ sound_read_time = clock
    /\ episode_alerts = 0
    /\ total_alerts = 0
    /\ sustained_seen = FALSE
    /\ latched_at_start = FALSE
    /\ latched_at_quiet = FALSE
    /\ quiet_observed = None
    /\ sound_before = sound_detector
    /\ sound_called_at = clock
    /\ sound_op_before = "init"
    /\ sound_status_before = sound_status
    /\ quiet_run_since_alert = FALSE
    /\ shadow_sound = sound_detector
    /\ shadow_sound_status = sound_status

IdleSoundVars ==
    /\ sound_sensor = "None"
    /\ sound_detector = SoundDisturbanceDetector(0, 0, clock)
    /\ sound_status = [sound_now |-> FALSE, acoustic_alert |-> FALSE]
    /\ sound_op = "init"
    /\ sound_read_time = clock
    /\ episode_alerts = 0
    /\ total_alerts = 0
    /\ sustained_seen = FALSE
    /\ latched_at_start = FALSE
    /\ latched_at_quiet = FALSE
    /\ quiet_observed = None
    /\ sound_before = sound_detector
    /\ sound_called_at = clock
    /\ sound_op_before = "init"
    /\ sound_status_before = sound_status
    /\ quiet_run_since_alert = FALSE
    /\ shadow_sound = sound_detector
    /\ shadow_sound_status = sound_status

InactivityThresholds == {0, TestInactivityThreshold, DefaultInactivityThreshold}

InitMotionVars ==
    /\ pir_sensor \in {"MotionSensor", "None"}
    /\ \E th \in InactivityThresholds : motion_tracker = MotionTracker(th, clock)
    /\ motion_status = MotionStatus(motion_tracker, clock)
    /\ motion_op = "init"
    /\ motion_signal = FALSE
    /\ motion_read_time = clock
    /\ motion_before = motion_tracker
    /\ signal_true_at = None
    /\ started_at = clock
    /\ shadow_motion = motion_tracker
    /\ shadow_motion_status = motion_status

IdleMotionVars ==
    /\ pir_sensor = "None"
    /\ motion_tracker = MotionTracker(DefaultInactivityThreshold, clock)
    /\ motion_status = MotionStatus(motion_tracker, clock)
    /\ motion_op = "init"
    /\ motion_signal = FALSE
    /\ motion_read_time = clock
    /\ motion_before = motion_tracker
    /\ signal_true_at = None
    /\ started_at = clock
    /\ shadow_motion = motion_tracker
    /\ shadow_motion_status = motion_status

\* compose(), line 22: the status panel before the first update_data.
InitStatusVars ==
    /\ current_temp = NoReading
    /\ co2_data = NoReading
    /\ inactivity_alert = FALSE
    /\ system_status = "INITIALIZING..."

IdleAdapterVars ==
    /\ dht_sensor = "None"
    /\ logged_sensor = "DHT22"
    /\ env_data = BothAbsent
    /\ co2_value = NoReading
    /\ csv_status = ""
    /\ adapter_op = "init"
    /\ adapter_raised = "none"
    /\ driver_reads = << >>

\* Lines 10-16 of hardware_manager.py: DHT22(board.D4) succeeded or failed.
InitAdapterVars ==
    /\ dht_sensor \in {"DHT22", "None"}
    /\ logged_sensor = "DHT22"
    /\ env_data = BothAbsent
    /\ co2_value = NoReading
    /\ csv_status = ""
    /\ adapter_op = "init"
    /\ adapter_raised = "none"
    /\ driver_reads = << >>

(*------------------------- sound detector -------------------------------*)

\* time() moves on between two handler calls.
SoundAdvance ==
    /\ \E step \in 1..MaxStep :
          /\ clock + step <= MaxTime
          /\ clock' = clock + step
    /\ UNCHANGED <<advances, soundVars, motionVars, statusVars, adapterVars>>

\* sound_detector.update(): is_active is the pin level, drift the time that
\* passes between the time() of line 153 and the time() of line 156.
SoundUpdateCall ==
    \E is_active \in BOOLEAN, drift \in 0..MaxDrift :
       LET quiet       == sound_sensor # "None" /\ ~is_active
           noisy       == sound_sensor # "None" /\ is_active
           t1          == clock
           t2          == IF quiet THEN clock + drift ELSE clock
           after       == SoundUpdate(sound_detector, sound_sensor, is_active, t1, t2)
           startsNoise == noisy /\ sound_detector.noise_start_time = None
           startsQuiet == quiet /\ sound_detector.quiet_start_time = None
       IN  /\ (drift > 0) => (quiet /\ t2 <= MaxTime)
           /\ clock' = t2
           /\ sound_detector' = after
           /\ sound_op' = "update"
           /\ sound_read_time' = t2
           /\ episode_alerts' = IF startsNoise \/ quiet THEN 0 ELSE episode_alerts
           /\ sustained_seen' = IF startsNoise \/ quiet THEN FALSE ELSE sustained_seen
           /\ latched_at_start' =
                 IF startsNoise THEN sound_detector.alert_triggered_for_event
                 ELSE IF quiet THEN FALSE ELSE latched_at_start
           /\ latched_at_quiet' =
                 IF startsQuiet THEN sound_detector.alert_triggered_for_event
                 ELSE latched_at_quiet
           /\ quiet_observed' =
                 IF quiet THEN t2 - after.quiet_start_time ELSE quiet_observed
           /\ quiet_run_since_alert' =
                 (quiet_run_since_alert \/
                    (quiet /\ t2 - after.quiet_start_time
                                > sound_detector.quiet_reset_duration))
           /\ sound_before' = sound_detector
           /\ sound_called_at' = clock
           /\ sound_op_before' = sound_op
           /\ sound_status_before' = sound_status
           /\ shadow_sound' = SoundUpdate(shadow_sound, "InputDevice", FALSE, t1, t2)
           /\ UNCHANGED <<advances, sound_sensor, sound_status, total_alerts,
                          shadow_sound_status, motionVars, statusVars, adapterVars>>

\* sound_detector.get_status()
SoundGetStatusCall ==
    LET t      == clock
        result == SoundStatus(sound_detector, t)
        inNoise == sound_detector.noise_start_time # None
    IN  /\ sound_status' = result
        /\ sound_detector' = SoundAfterStatus(sound_detector, t)
        /\ sound_op' = "get_status"
        /\ sound_read_time' = t
        /\ episode_alerts' =
              IF result.acoustic_alert
              THEN Min(episode_alerts + 1, AlertCountCap) ELSE episode_alerts
        /\ total_alerts' =
              IF result.acoustic_alert
              THEN Min(total_alerts + 1, AlertCountCap) ELSE total_alerts
        /\ sustained_seen' =
              (sustained_seen \/
                 (inNoise /\ t - sound_detector.noise_start_time
                                > sound_detector.sustained_noise_duration))
        /\ quiet_run_since_alert' =
              IF result.acoustic_alert THEN FALSE ELSE quiet_run_since_alert
        /\ sound_before' = sound_detector
        /\ sound_called_at' = clock
        /\ sound_op_before' = sound_op
        /\ sound_status_before' = sound_status
        /\ shadow_sound_status' = SoundStatus(shadow_sound, t)
        /\ shadow_sound' = SoundAfterStatus(shadow_sound, t)
        /\ UNCHANGED <<clock, advances, sound_sensor, latched_at_start,
                       latched_at_quiet, quiet_observed, motionVars, statusVars, adapterVars>>

InitSound ==
    /\ IdleAdapterVars
    /\ clock = 0
    /\ advances = 0
    /\ InitSoundVars
    /\ IdleMotionVars
    /\ InitStatusVars

NextSound == SoundAdvance \/ SoundUpdateCall \/ SoundGetStatusCall

SpecSound == InitSound /\ [][NextSound]_vars

(*------------------------- motion tracker -------------------------------*)

\* The gaps between two handler calls that the exploration tries: a second,
\* and the gaps that land on either side of the 60 s, 3600 s and threshold
\* boundaries.
MotionSteps == {1, 30, 59, 60, 400, 3599, 3600}

\* time() moves on between two handler calls.
MotionAdvance ==
    /\ advances < MaxAdvances
    /\ advances' = advances + 1
    /\ \E step \in MotionSteps : clock' = clock + step
    /\ UNCHANGED <<soundVars, motionVars, statusVars, adapterVars>>

\* motion_tracker.update(): is_active is the pin level.
MotionUpdateCall ==
    \E is_active \in BOOLEAN :
       /\ motion_tracker' = MotionUpdate(motion_tracker, pir_sensor, is_active, clock)
       /\ motion_before' = motion_tracker
       /\ motion_op' = "update"
       /\ motion_signal' = is_active
       /\ motion_read_time' = clock
       /\ signal_true_at' =
             IF pir_sensor # "None" /\ is_active THEN clock ELSE signal_true_at
       /\ shadow_motion' = MotionUpdate(shadow_motion, "MotionSensor", FALSE, clock)
       /\ UNCHANGED <<clock, advances, pir_sensor, motion_status, started_at,
                      shadow_motion_status, soundVars, statusVars, adapterVars>>

\* motion_tracker.get_status()
MotionGetStatusCall ==
    /\ motion_status' = MotionStatus(motion_tracker, clock)
    /\ motion_tracker' = MotionAfterStatus(motion_tracker, clock)
    /\ motion_before' = motion_tracker
    /\ motion_op' = "get_status"
    /\ motion_read_time' = clock
    /\ shadow_motion_status' = MotionStatus(shadow_motion, clock)
    /\ shadow_motion' = MotionAfterStatus(shadow_motion, clock)
    /\ UNCHANGED <<clock, advances, pir_sensor, motion_signal,
                   signal_true_at, started_at, soundVars, statusVars, adapterVars>>

\* The values of time() at which the exploration constructs the tracker.
StartTimes == {0, 100}

InitMotion ==
    /\ IdleAdapterVars
    /\ clock \in StartTimes
    /\ advances = 0
    /\ IdleSoundVars
    /\ InitMotionVars
    /\ InitStatusVars

NextMotion == MotionAdvance \/ MotionUpdateCall \/ MotionGetStatusCall

SpecMotion == InitMotion /\ [][NextMotion]_vars

(*------------------------- aggregate status -----------------------------*)

\* The readings the exploration feeds the rule: absent, and values on
\* either side of the 35.0 degree and 2000 ppm limits.
Temperatures == {NoReading} \cup {Reading(v) : v \in {-50, 200, 349, 350, 351, 360, 400}}
Co2Levels == {NoReading} \cup {Reading(v) : v \in {0, 400, 1999, 2000, 2001, 2500, 5000}}

\* update_data(), lines 45-104: one timer tick of the dashboard, with the
\* values the adapters and the tracker hand it.
UpdateData ==
    \E t \in Temperatures, c \in Co2Levels, a \in BOOLEAN :
       /\ current_temp' = t
       /\ co2_data' = c
       /\ inactivity_alert' = a
       /\ system_status' = SystemStatus(t, c, a)
       /\ UNCHANGED <<clock, advances, soundVars, motionVars, adapterVars>>

InitStatus ==
    /\ IdleAdapterVars
    /\ clock = 0
    /\ advances = 0
    /\ IdleSoundVars
    /\ IdleMotionVars
    /\ InitStatusVars

NextStatus == UpdateData

SpecStatus == InitStatus /\ [][NextStatus]_vars

(*------------------------- sensor read adapters ------------------------*)

Failures == {[kind |-> k, value |-> 0] : k \in {"None", "RuntimeError", "Exception"}}
TemperatureReads == {[kind |-> "value", value |-> v] : v \in {-50, 200, 360}} \cup Failures
HumidityReads == {[kind |-> "value", value |-> v] : v \in {0, 550}} \cup Failures
Co2Reads ==
    {[kind |-> "dict", value |-> v] : v \in {400, 2500}}
      \cup {[kind |-> k, value |-> 0] :
               k \in {"dictNoCo2", "emptyDict", "None", "Exception"}}

\* An exception that leaves an adapter ends the loop that called it.
Running == adapter_raised = "none"

\* hardware_manager.get_environmental_data()
ReadEnvironment ==
    /\ Running
    /\ \E tr \in TemperatureReads, hr \in HumidityReads :
          LET r == GetEnvironmentalData(dht_sensor, tr, hr)
          IN  /\ env_data' = r.data
              /\ adapter_raised' = r.raised
              /\ driver_reads' = <<tr, hr>>
    /\ adapter_op' = "get_environmental_data"
    /\ UNCHANGED <<clock, advances, soundVars, motionVars, statusVars,
                   dht_sensor, logged_sensor, co2_value, csv_status>>

\* hardware_manager.get_co2_data()
ReadCo2 ==
    /\ Running
    /\ \E read \in Co2Reads :
          /\ co2_value' = GetCo2Data(read)
          /\ driver_reads' = <<read>>
    /\ adapter_raised' = "none"
    /\ adapter_op' = "get_co2_data"
    /\ UNCHANGED <<clock, advances, soundVars, motionVars, statusVars,
                   dht_sensor, logged_sensor, env_data, csv_status>>

\* tests/dht.py get_environmental_data()
ReadEnvironmentLogged ==
    /\ Running
    /\ \E tr \in TemperatureReads, hr \in HumidityReads :
          LET r == LoggedGetEnvironmentalData(tr, hr)
          IN  /\ env_data' = r.data
              /\ adapter_raised' = r.raised
              /\ csv_status' = r.csv
              /\ logged_sensor' = IF r.released THEN "released" ELSE logged_sensor
              /\ driver_reads' = <<tr, hr>>
    /\ adapter_op' = "logged_get_environmental_data"
    /\ UNCHANGED <<clock, advances, soundVars, motionVars, statusVars,
                   dht_sensor, co2_value>>

InitAdapters ==
    /\ clock = 0
    /\ advances = 0
    /\ IdleSoundVars
    /\ IdleMotionVars
    /\ InitStatusVars
    /\ InitAdapterVars

NextAdapters == ReadEnvironment \/ ReadCo2 \/ ReadEnvironmentLogged

SpecAdapters == InitAdapters /\ [][NextAdapters]_vars

(*------------------------- both sensors unavailable ---------------------*)

\* Lines 18-33: MotionSensor(17) and InputDevice(27) both failed, so
\* pir_sensor and sound_sensor are None for the lifetime of the process.
InitUnavailable ==
    /\ IdleAdapterVars
    /\ clock = 0
    /\ advances = 0
    /\ InitSoundVars
    /\ sound_sensor = "None"
    /\ InitMotionVars
    /\ pir_sensor = "None"
    /\ InitStatusVars

NextUnavailable ==
    \/ SoundAdvance
    \/ MotionUpdateCall
    \/ MotionGetStatusCall
    \/ SoundUpdateCall
    \/ SoundGetStatusCall

SpecUnavailable == InitUnavailable /\ [][NextUnavailable]_vars

(***************************************************************************)
(* Properties of the sound detector (checked under SpecSound)              *)
(***************************************************************************)

InNoiseEpisode == sound_detector.noise_start_time # None

\* C1, as the specification states it: once a get_status of a noise episode
\* has seen the noise last longer than sustained_noise_duration, exactly
\* one get_status of that episode has reported acoustic_alert.
C1_ExactlyOneAlertPerEpisode ==
    sustained_seen => episode_alerts = 1

\* C1, amended: an episode never reports acoustic_alert more than once,
\* and once the noise has been seen to last longer than
\* sustained_noise_duration the episode has reported it exactly once if the
\* latch was clear when the episode began and not at all if it was set.
C1_OneShotPerEpisode ==
    /\ episode_alerts <= 1
    /\ sustained_seen => episode_alerts = (IF latched_at_start THEN 0 ELSE 1)

\* A later tick of a sustained episode that already alerted reports false.
C1_Witness ==
    /\ InNoiseEpisode
    /\ ~latched_at_start
    /\ sound_op = "get_status"
    /\ sound_read_time - sound_detector.noise_start_time
          > sound_detector.sustained_noise_duration
    /\ ~sound_status.acoustic_alert
    /\ episode_alerts = 1

\* C2: when the latch was set at the start of a quiet episode, update saw
\* that quiet last longer than quiet_reset_duration, and the noise episode
\* that follows is seen to last longer than sustained_noise_duration, that
\* episode reports acoustic_alert: a second alert.
C2_RearmAfterQuiet ==
    ( /\ InNoiseEpisode
      /\ latched_at_quiet
      /\ quiet_observed > sound_detector.quiet_reset_duration
      /\ sustained_seen )
    => (episode_alerts = 1 /\ total_alerts >= 2)

C2_Witness ==
    /\ InNoiseEpisode
    /\ latched_at_quiet
    /\ quiet_observed > sound_detector.quiet_reset_duration
    /\ sound_op = "get_status"
    /\ sound_status.acoustic_alert
    /\ total_alerts = 2

\* C3: when the latch was set at the start of a quiet episode and every
\* quiet duration update computed in it was at most quiet_reset_duration,
\* the latch is still set, in that quiet episode and in the noise episode
\* after it, and that noise episode reports no acoustic_alert.
C3_LatchKeptAtExactThreshold ==
    ( /\ latched_at_quiet
      /\ quiet_observed <= sound_detector.quiet_reset_duration )
    => ( /\ sound_detector.alert_triggered_for_event
         /\ episode_alerts = 0
         /\ (sound_op = "get_status" => ~sound_status.acoustic_alert) )

\* Quiet lasted exactly quiet_reset_duration, noise resumed and was sustained.
C3_Witness ==
    /\ InNoiseEpisode
    /\ latched_at_quiet
    /\ sound_detector.quiet_reset_duration > 0
    /\ quiet_observed = sound_detector.quiet_reset_duration
    /\ sustained_seen
    /\ sound_op = "get_status"
    /\ ~sound_status.acoustic_alert
    /\ sound_detector.alert_triggered_for_event

\* C4: noise_start_time and quiet_start_time are never both set.
C4_NeverBothPhases ==
    ~( /\ sound_detector.noise_start_time # None
       /\ sound_detector.quiet_start_time # None )

\* A noise episode that followed the initial quiet phase.
C4_Witness ==
    /\ sound_op = "update"
    /\ sound_detector.sound_is_active
    /\ sound_detector.noise_start_time # None
    /\ sound_detector.quiet_start_time = None

\* C16: an update that reads a true signal stamps noise_start_time with its
\* time() when no noise episode is running and leaves it as it was when
\* one is; an update that reads a false signal does the same with
\* quiet_start_time.
C16_EpisodeStampIdempotent ==
    (sound_op = "update" /\ sound_sensor # "None") =>
       IF sound_detector.sound_is_active
       THEN sound_detector.noise_start_time =
              (IF sound_before.noise_start_time = None
               THEN sound_called_at ELSE sound_before.noise_start_time)
       ELSE sound_detector.quiet_start_time =
              (IF sound_before.quiet_start_time = None
               THEN sound_called_at ELSE sound_before.quiet_start_time)

\* A later true-signal update of a running noise episode, after time passed.
C16_Witness ==
    /\ sound_op = "update"
    /\ sound_sensor # "None"
    /\ sound_detector.sound_is_active
    /\ sound_before.noise_start_time # None
    /\ sound_called_at > sound_before.noise_start_time
    /\ sound_detector.noise_start_time = sound_before.noise_start_time

Latched == sound_detector.alert_triggered_for_event

\* C17: the latch is set only by a get_status that returns acoustic_alert,
\* and cleared only by an update that read a false signal and computed a
\* quiet duration over quiet_reset_duration; so whenever the latch is clear
\* after an alert, such a quiet run has been seen since that alert.
C17_LatchDiscipline ==
    /\ (~sound_before.alert_triggered_for_event /\ Latched)
         => (sound_op = "get_status" /\ sound_status.acoustic_alert)
    /\ (sound_before.alert_triggered_for_event /\ ~Latched)
         => ( /\ sound_op = "update"
              /\ sound_sensor # "None"
              /\ ~sound_detector.sound_is_active
              /\ quiet_observed > sound_detector.quiet_reset_duration )
    /\ (total_alerts >= 1 /\ ~Latched) => quiet_run_since_alert

\* A second alert, whose episode began with the latch cleared again.
C17_Witness ==
    /\ sound_op = "get_status"
    /\ sound_status.acoustic_alert
    /\ total_alerts = 2
    /\ ~sound_before.alert_triggered_for_event
    /\ Latched

\* C18: with the sensor available, noise_start_time is set exactly when the
\* last-read signal is true and quiet_start_time exactly when it is false,
\* and get_status never reports acoustic_alert with sound_now false.
C18_PhaseMatchesSignal ==
    (sound_sensor # "None") =>
       /\ (sound_detector.noise_start_time # None)
            <=> sound_detector.sound_is_active
       /\ (sound_detector.quiet_start_time # None)
            <=> ~sound_detector.sound_is_active
       /\ sound_status.acoustic_alert => sound_status.sound_now

C18_Witness ==
    /\ sound_sensor # "None"
    /\ sound_op = "get_status"
    /\ sound_status.acoustic_alert
    /\ sound_status.sound_now
    /\ sound_detector.quiet_start_time = None

\* C19: get_status changes alert_triggered_for_event and nothing else: the
\* call that returns acoustic_alert sets the latch, a call made while the
\* latch is set returns false (so does a second call right after an
\* alerting one), and noise_start_time, quiet_start_time and
\* sound_is_active are as they were.
C19_StatusLatchesOnly ==
    (sound_op = "get_status") =>
       /\ sound_detector.noise_start_time = sound_before.noise_start_time
       /\ sound_detector.quiet_start_time = sound_before.quiet_start_time
       /\ sound_detector.sound_is_active = sound_before.sound_is_active
       /\ sound_status.acoustic_alert => Latched
       /\ sound_before.alert_triggered_for_event => ~sound_status.acoustic_alert
       /\ (sound_op_before = "get_status" /\ sound_status_before.acoustic_alert)
            => ~sound_status.acoustic_alert

\* Two get_status calls at the same instant: the first alerted, the second did not.
C19_Witness ==
    /\ sound_op = "get_status"
    /\ sound_op_before = "get_status"
    /\ sound_status_before.acoustic_alert
    /\ ~sound_status.acoustic_alert
    /\ sound_called_at - sound_detector.noise_start_time
          > sound_detector.sustained_noise_duration

(***************************************************************************)
(* Properties of the motion tracker (checked under SpecMotion)             *)
(***************************************************************************)

\* C5: last_motion_time never decreases, and an operation changes it only
\* if it is an update that read a true presence signal.
C5_LastMotionMonotone ==
    /\ motion_tracker.last_motion_time >= motion_before.last_motion_time
    /\ motion_tracker.last_motion_time >= started_at
    /\ (motion_tracker.last_motion_time # motion_before.last_motion_time)
          => (motion_op = "update" /\ pir_sensor # "None" /\ motion_signal)

C5_Witness ==
    /\ motion_op = "update"
    /\ motion_signal
    /\ motion_before.last_motion_time > started_at
    /\ motion_tracker.last_motion_time > motion_before.last_motion_time

\* C6: an update with the sensor unavailable or the signal false sets
\* motion_now false and leaves last_motion_time and inactivity_threshold
\* as they were; an update with a true signal sets motion_now true and
\* last_motion_time to the time it read.
C6_UpdateFrame ==
    (motion_op = "update") =>
       /\ motion_tracker.inactivity_threshold = motion_before.inactivity_threshold
       /\ IF pir_sensor # "None" /\ motion_signal
          THEN /\ motion_tracker.motion_now
               /\ motion_tracker.last_motion_time = motion_read_time
          ELSE /\ ~motion_tracker.motion_now
               /\ motion_tracker.last_motion_time = motion_before.last_motion_time

\* A false signal read after motion, some time after the last motion.
C6_Witness ==
    /\ motion_op = "update"
    /\ pir_sensor # "None"
    /\ ~motion_signal
    /\ motion_before.motion_now
    /\ ~motion_tracker.motion_now
    /\ motion_read_time > motion_tracker.last_motion_time

Elapsed == motion_read_time - motion_tracker.last_motion_time

\* C7: get_status reports inactivity_alert exactly when the elapsed time is
\* strictly greater than inactivity_threshold: false at the threshold,
\* true one second past it.
C7_InactivityStrictlyGreater ==
    (motion_op = "get_status") =>
       /\ motion_status.inactivity_alert
            <=> (Elapsed > motion_tracker.inactivity_threshold)
       /\ (Elapsed = motion_tracker.inactivity_threshold)
            => ~motion_status.inactivity_alert
       /\ (Elapsed = motion_tracker.inactivity_threshold + 1)
            => motion_status.inactivity_alert

C7_Witness ==
    /\ motion_op = "get_status"
    /\ motion_tracker.inactivity_threshold = DefaultInactivityThreshold
    /\ Elapsed = motion_tracker.inactivity_threshold
    /\ ~motion_status.inactivity_alert

SinceSignal == motion_read_time - signal_true_at

\* C8: when the presence signal was last read true at time T, get_status
\* at T + e labels the recency "Just now" for e < 60, "<e div 60> mins ago"
\* for 60 <= e < 3600 and "<e div 3600> hours ago" for e >= 3600.
C8_RecencyLabel ==
    (motion_op = "get_status" /\ signal_true_at # None) =>
       /\ (SinceSignal < 60) => motion_status.last_seen_str = "Just now"
       /\ (SinceSignal >= 60 /\ SinceSignal < 3600)
            => motion_status.last_seen_str
                 = ToString(SinceSignal \div 60) \o " mins ago"
       /\ (SinceSignal >= 3600)
            => motion_status.last_seen_str
                 = ToString(SinceSignal \div 3600) \o " hours ago"
       /\ (SinceSignal = 30) => motion_status.last_seen_str = "Just now"
       /\ (SinceSignal = 90) => motion_status.last_seen_str = "1 mins ago"
       /\ (SinceSignal = 4000) => motion_status.last_seen_str = "1 hours ago"

C8_Witness ==
    /\ motion_op = "get_status"
    /\ signal_true_at # None
    /\ ~motion_tracker.motion_now
    /\ SinceSignal = 4000
    /\ motion_status.last_seen_str = "1 hours ago"

\* C12: get_status leaves inactivity_threshold, last_motion_time and
\* motion_now as they were, so only update changes them, and the
\* hyperactivity_alert it returns is false.
C12_StatusIsPure ==
    /\ (motion_op = "get_status") =>
          /\ motion_tracker = motion_before
          /\ ~motion_status.hyperactivity_alert
    /\ (motion_tracker # motion_before) => motion_op = "update"

\* A get_status that reports an inactivity alert some time after motion.
C12_Witness ==
    /\ motion_op = "get_status"
    /\ signal_true_at # None
    /\ motion_read_time > motion_tracker.last_motion_time
    /\ motion_status.inactivity_alert
    /\ motion_tracker = motion_before

\* C13, as the specification states it: until the first true presence
\* signal the elapsed time get_status computes is 0, and it reports no
\* inactivity alert.
C13_ElapsedZeroUntilSignal ==
    (motion_op = "get_status" /\ signal_true_at = None) =>
       /\ Elapsed = 0
       /\ ~motion_status.inactivity_alert

\* C13, amended: until the first true presence signal last_motion_time is
\* the construction time, so the elapsed time get_status computes is the
\* time since construction: 0 at the construction instant, where no
\* inactivity alert is reported, and an alert exactly once more than
\* inactivity_threshold has passed since construction.
C13_StartupCountsFromConstruction ==
    (signal_true_at = None) =>
       /\ motion_tracker.last_motion_time = started_at
       /\ (motion_op = "get_status") =>
             /\ Elapsed = motion_read_time - started_at
             /\ motion_status.inactivity_alert
                  <=> (motion_read_time - started_at
                         > motion_tracker.inactivity_threshold)
             /\ (motion_read_time = started_at)
                  => (Elapsed = 0 /\ ~motion_status.inactivity_alert)

\* get_status at the construction instant of a tracker built at a time
\* other than 0, with the smallest threshold.
C13_Witness ==
    /\ motion_op = "get_status"
    /\ signal_true_at = None
    /\ started_at > 0
    /\ motion_read_time = started_at
    /\ motion_tracker.inactivity_threshold = 0
    /\ ~motion_status.inactivity_alert

(***************************************************************************)
(* Properties of the aggregate status (checked under SpecStatus)           *)
(***************************************************************************)

Shown == system_status # "INITIALIZING..."
TempHigh == current_temp # NoReading /\ current_temp[1] > 350
Co2High == co2_data # NoReading /\ co2_data[1] > 2000

\* C9: the status is CRITICAL when the temperature is present and above
\* 35.0; otherwise CRITICAL when inactivity_alert; otherwise WARNING when
\* CO2 is present and above 2000; otherwise NORMAL.
C9_StatusPriority ==
    Shown =>
       /\ TempHigh => system_status = "CRITICAL"
       /\ (~TempHigh /\ inactivity_alert) => system_status = "CRITICAL"
       /\ (~TempHigh /\ ~inactivity_alert /\ Co2High) => system_status = "WARNING"
       /\ (~TempHigh /\ ~inactivity_alert /\ ~Co2High) => system_status = "NORMAL"

\* temperature 36.0 with CO2 2500 and no inactivity: CRITICAL, not WARNING.
C9_Witness ==
    /\ current_temp = Reading(360)
    /\ co2_data = Reading(2500)
    /\ ~inactivity_alert
    /\ system_status = "CRITICAL"

Severity(status) ==
    CASE status = "NORMAL" -> 0
      [] status = "WARNING" -> 1
      [] status = "CRITICAL" -> 2

\* C10: the status computed with the temperature, the CO2 level or both
\* replaced by the absent value is never more severe than the status
\* shown, and with both absent and no inactivity alert it is NORMAL.
C10_FailOpenOnAbsent ==
    Shown =>
       /\ Severity(SystemStatus(NoReading, co2_data, inactivity_alert))
            <= Severity(system_status)
       /\ Severity(SystemStatus(current_temp, NoReading, inactivity_alert))
            <= Severity(system_status)
       /\ Severity(SystemStatus(NoReading, NoReading, inactivity_alert))
            <= Severity(system_status)
       /\ (current_temp = NoReading /\ co2_data = NoReading /\ ~inactivity_alert)
            => system_status = "NORMAL"

\* Dropping a critical temperature lowers the status to the CO2 warning.
C10_Witness ==
    /\ current_temp = Reading(400)
    /\ co2_data = Reading(5000)
    /\ ~inactivity_alert
    /\ system_status = "CRITICAL"
    /\ SystemStatus(NoReading, co2_data, inactivity_alert) = "WARNING"

(***************************************************************************)
(* The dashboard tick: update, then get_status, then the status rule       *)
(* (checked under SpecMotion)                                              *)
(***************************************************************************)

C11_UnavailableIsAlwaysFalse ==
    /\ (pir_sensor = "None") =>
          /\ motion_tracker = shadow_motion
          /\ motion_status = shadow_motion_status
          /\ ~motion_tracker.motion_now
          /\ ~motion_status.motion_now
          /\ motion_tracker.last_motion_time = started_at
    /\ (sound_sensor = "None") =>
          /\ sound_status = shadow_sound_status
          /\ ~sound_detector.sound_is_active
          /\ ~sound_status.sound_now
          /\ ~sound_status.acoustic_alert
          /\ total_alerts = 0

\* Both trackers polled after time has passed, the presence pin high at
\* the last update, and the inactivity alert raised as for a false signal.
C11_Witness ==
    /\ pir_sensor = "None"
    /\ sound_sensor = "None"
    /\ motion_op = "get_status"
    /\ motion_signal
    /\ motion_read_time > started_at
    /\ motion_status.inactivity_alert
    /\ sound_op = "get_status"
    /\ sound_op_before = "update"
    /\ sound_called_at > sound_detector.quiet_start_time
          + sound_detector.sustained_noise_duration

(***************************************************************************)
(* Properties of the adapters (checked under SpecAdapters)                 *)
(***************************************************************************)

EnvironmentCall ==
    adapter_op \in {"get_environmental_data", "logged_get_environmental_data"}

DriverRaised == FirstRaise(driver_reads[1], driver_reads[2])

\* C14: whatever the driver did (handle missing, a read of None, a
\* RuntimeError, any other exception), a reading get_environmental_data
\* returns has temperature and humidity both present or both absent.
C14_BothOrNeither ==
    (EnvironmentCall /\ adapter_raised = "none") =>
       (env_data.temperature = NoReading) <=> (env_data.humidity = NoReading)

\* The temperature was read and the humidity came back None.
C14_Witness ==
    /\ adapter_op = "get_environmental_data"
    /\ dht_sensor # "None"
    /\ driver_reads[1].kind = "value"
    /\ driver_reads[2].kind = "None"
    /\ env_data = BothAbsent

====
